---- MODULE Spec2Model ----
(***************************************************************************)
(* Model of the signal-driven raster scans of ConfocalScannerLogic         *)
(* (src/logic/confocal_JPECPSHR3_logic.py) together with the two scan      *)
(* buttons of its GUI (src/gui/confocal_JPE_CPSHR3/confocalJPECPSHR3gui.py)*)
(* and the stage stop of JPE_CPSHR3_logic.  Three further parts follow the *)
(* same drivers elsewhere in the repository: the position write of the NI  *)
(* card (src/hardware/attocube/nicard_digital.py), the synchronous snake   *)
(* scan of the JPE/NI interfuse and the line scan of ScanLogic             *)
(* (src/logic/slipslide_logic.py).                                         *)
(*                                                                         *)
(* Lengths are whole micrometres: step and square_side are the values of   *)
(* the two spin boxes.  side/step is the exact quotient of the two, so     *)
(* int(side/step) is its floor, np.round(side/step) rounds it half to even *)
(* and a comparison against (side/step)**2 is a comparison of rationals.   *)
(*                                                                         *)
(* Every Qt slot runs to completion on the one event loop, so each handler *)
(* is one action.  queue is the FIFO of queued-connection signals that     *)
(* have been emitted and not yet delivered.                                *)
(*                                                                         *)
(* The stage and the detector are the injected drivers: the stage adds up  *)
(* the relative moves it is given, the detector returns a count that is a  *)
(* function of the stage position, and both append what they were asked to *)
(* the call log calls, as do the handlers' signal emissions.               *)
(***************************************************************************)
EXTENDS Integers, Sequences, FiniteSets, TLC

\* Largest step (um) the scan buttons are pressed with.
MaxStep == 2
\* Largest square side (um) the scan buttons are pressed with.
MaxSide == 4
\* Number of scan-button presses in a behaviour.
MaxPresses == 2
\* Number of stop_CLAs calls in a behaviour.
MaxStops == 1
\* Scan steps are delivered while scan_iteration is below this cap (a scan
\* restarted while another is pending can run without end).
MaxIterations == 40
\* A driver fault is injected at one of the first MaxFaultAt driver calls.
MaxFaultAt == 3
\* Upper end of the NI card's position range on every axis (config x_range
\* ... a_range, default [0, 100]); requests reach one unit beyond each end.
MaxRange == 1
\* Largest number of lines of a ScanLogic image (initialize_image makes at
\* least two).
MaxLines == 3
\* Number of start_scanning / continue_scanning calls in a behaviour.
MaxScans == 2
\* Number of white-light-transmission measurements started in a behaviour.
MaxMeasurements == 2
\* Number of times the operator stops a measurement by hand.
MaxWltStops == 1
\* Largest cavity position a sweep is started from.
MaxCavityPos == 1
\* Largest coordinate the cursor of ScanLogic is set to.
MaxCursor == 1
\* Number of set_position calls made from outside ScanLogic.
MaxSetPositions == 1
\* Largest number of points of a line path.
MaxPathLen == 3
\* Largest x value of a point of a line path.
MaxPathValue == 2
\* Number of set_up_clock and close_clock calls on NIcard.
MaxClockCalls == 4
\* Largest index of a counter channel of the card.
MaxChannel == 1
\* self.max_history_length (10 when no status variable gives another value).
max_history_length == 2
\* Largest coordinate, resolution, line and pixel value held by a
\* ConfocalHistoryEntry.
MaxEntryValue == 2

VARIABLES
    step,            \* self.step
    square_side,     \* self.square_side
    point,           \* self.point
    line,            \* self.line
    data,            \* self.data, data[line][col]
    scan_iteration,  \* self.scan_iteration
    queue,           \* pending queued signals, oldest first
    pos,             \* stage position <<x, y, z>>
    calls,           \* log of driver calls and emissions since initialize_scan
    raised,          \* a handler ended in an exception since initialize_scan
    mode,            \* the scan button pressed last
    presses,         \* number of scan-button presses so far
    stops,           \* number of stop_CLAs calls so far
    saved,           \* the scan the last button press replaced
    moving,          \* the stage actuators are in motion
    failAt,          \* the driver call of the scan that raises (0: none)
    \* NIcard
    current_position,  \* self._current_position, axes x, y, z, a
    scanner_state,     \* NIcard.getState(): "idle" or "locked"
    scanner_do,        \* number of writes to the digital output lines
    nic_ret,           \* what the last scanner_set_position returned
    nic_log,           \* what the last scanner_set_position logged
    nic_request_out,   \* the card's last operation was a scanner_set_position
                       \* asked for a coordinate outside its range
    \* confocal_scanner_JPE_CPSHR3_nicard_interfuse
    if_data,           \* the image snake_scan returned
    if_args,           \* <<step, square_side, start position>> it ran with
    if_pos,            \* where it left the stage
    \* ScanLogic
    module_state,        \* ScanLogic.getState(): "idle" or "locked"
    stopRequested,       \* self.stopRequested
    scan_counter,        \* self._scan_counter
    xy_line_pos,         \* self._xy_line_pos
    xyscan_continuable,  \* self._xyscan_continuable
    image_lines,         \* np.size(self._image_vert_axis)
    scan_queue,          \* queued signals of ScanLogic, oldest first
    in_line,             \* _scan_line is busy scanning a line
    setting_up,          \* the slot that has locked and is setting up ("": none)
    scanner_open,        \* the device's scanner task is set up
    clock_open,          \* the device's scanner clock is set up
    scans,               \* start_scanning / continue_scanning calls so far
    stop_called,         \* stop_scanning() hit a locked module, not yet obeyed
    begun_after_stop,    \* lines begun since then
    last_op,             \* what ScanLogic did last
    lines_since_stop_call,  \* lines begun since stop_scanning() was called on the scan under way (-1: not called)
    rows_stored,  \* rows of xy_image the running scan has stored counts in, in order
    \* WLTLogic
    wlt_log,         \* what WLTLogic asked of its devices, in order
    wlt_pos_start,   \* self.pos_start
    wlt_armed,       \* the spectrometer has been started and has not yet
                     \* signalled its image
    wlt_runs,        \* start_wlt_measurement calls so far
    wlt_stops,       \* stop_wlt_measurement calls by the operator so far
    \* sigMeasurementStarted emissions not yet delivered to start_sweep
    wlt_sweep_pending,
    \* ConfocalHistoryEntry
    he_entry,        \* an entry e
    he_restored,     \* a fresh entry after deserialize(e.serialize())
    he_done,         \* the round trip has been made
    \* NIcard: the clocks
    clock_daq_task,          \* self._clock_daq_task is not None
    scanner_clock_daq_task,  \* self._scanner_clock_daq_task is not None
    clock_channel,           \* self._clock_channel
    scanner_clock_channel,   \* self._scanner_clock_channel
    daq_tasks,       \* the clock tasks that exist in the driver, by name
    clock_ret,       \* what the latest set_up_clock or close_clock returned
    clock_calls,     \* set_up_clock and close_clock calls so far
    \* NIcard._scanner_position_to_step
    sp_line_path,    \* the line path: its x values and its y values
    sp_as_array,     \* the rows of the path are numpy arrays, not lists
    sp_position,     \* self._current_position[0] and [1] at the call
    sp_step_data,    \* the step data returned
    sp_done,         \* the call has returned
    setup_failed_at,  \* the step of the latest set-up that returned a negative status ("" if none): the slot then returned -1
    current_x,  \* self._current_x, the cursor
    current_y,  \* self._current_y
    device_xy,  \* the position last asked of the device with scanner_set_position
    accepted_xy,  \* the cursor as the set_position calls that returned 0 left it
    set_positions,  \* set_position calls from outside so far
    history_len,  \* len(self.history)
    history_index   \* self.history_index

confocalVars == <<step, square_side, point, line, data, scan_iteration, queue,
                  pos, calls, raised, mode, presses, stops, saved, moving,
                  failAt>>

nicardVars == <<current_position, scanner_state, scanner_do, nic_ret, nic_log,
                nic_request_out>>

interfuseVars == <<if_data, if_args, if_pos>>

scanVars == <<module_state, stopRequested, scan_counter, xy_line_pos,
              xyscan_continuable, image_lines, scan_queue, in_line,
              setting_up, scanner_open, clock_open, scans, stop_called,
              begun_after_stop, last_op,
              lines_since_stop_call,
              rows_stored,
              setup_failed_at,
              current_x,
              current_y,
              device_xy,
              accepted_xy,
              set_positions,
              history_len,
              history_index>>

wltVars == <<wlt_log, wlt_pos_start, wlt_armed, wlt_runs, wlt_stops,
            wlt_sweep_pending>>

\* The parts of the model that stand apart from the scanners.
entryVars == <<he_entry, he_restored, he_done>>

clockVars == <<clock_daq_task, scanner_clock_daq_task, clock_channel,
              scanner_clock_channel, daq_tasks, clock_ret, clock_calls>>

stepVars == <<sp_line_path, sp_as_array, sp_position, sp_step_data, sp_done>>

sideVars == <<wltVars, entryVars, clockVars, stepVars>>

\* What _scanner_position_to_step leaves alone.
besideStep == <<confocalVars, nicardVars, interfuseVars, scanVars, wltVars,
               entryVars, clockVars>>

\* What the clock methods of NIcard leave alone.
besideClock == <<confocalVars, nicardVars, interfuseVars, scanVars, wltVars,
                entryVars, stepVars>>

\* What the actions of WLTLogic leave alone.
besideWLT == <<confocalVars, nicardVars, interfuseVars, scanVars, entryVars,
              clockVars, stepVars>>

\* What the operations on a ConfocalHistoryEntry leave alone.
besideEntry == <<confocalVars, nicardVars, interfuseVars, scanVars, wltVars,
                clockVars, stepVars>>

vars == <<confocalVars, nicardVars, interfuseVars, scanVars, sideVars>>

-----------------------------------------------------------------------------
(* Arithmetic of side/step *)

\* int(square_side/step): truncation of a positive quotient.
IntQuot(sd, st) == sd \div st

\* int(np.round(square_side/step)): numpy rounds halves to the even integer.
RoundQuot(sd, st) ==
    LET q == sd \div st
        r == sd % st
    IN  IF 2 * r < st THEN q
        ELSE IF 2 * r > st THEN q + 1
        ELSE IF q % 2 = 0 THEN q ELSE q + 1

\* np.zeros((n, n), dtype=int)
Zeros(n) == [r \in 0 .. n - 1 |-> [c \in 0 .. n - 1 |-> 0]]

\* np.size(self.data, 0)
Size0(d) == Cardinality(DOMAIN d)

-----------------------------------------------------------------------------
(* The drivers *)

\* The detector: a count that encodes the stage position.
get_counter(p) == p[1] * 1000 + p[2]

\* The handler state threaded through one slot invocation.  exc is set
\* when a statement raised: the rest of the slot is then skipped.
Cur == [step |-> step, square_side |-> square_side, point |-> point,
        line |-> line, data |-> data, scan_iteration |-> scan_iteration,
        queue |-> queue, pos |-> pos, calls |-> calls, raised |-> raised,
        moving |-> moving, failAt |-> failAt, exc |-> FALSE]

Log(s, e) == [s EXCEPT !.calls = Append(@, e)]

Raise(s) == [s EXCEPT !.exc = TRUE, !.raised = TRUE]

\* Calls made to the stage and the detector since initialize_scan.
DriverCalls(s) ==
    Cardinality({i \in DOMAIN s.calls : s.calls[i][1] \in {"move", "read"}})

\* The driver raises on the call about to be made.
Faulty(s) == s.failAt # 0 /\ DriverCalls(s) + 1 = s.failAt

\* The driver error logged and swallowed: the slot carries on.
DriverError_Swallowed(s) == Log(s, <<"fail", 0, 0>>)

\* The exception of a driver call leaves the slot.
DriverError(s) == Raise(Log(s, <<"fail", 0, 0>>))

\* move_xyz returning without polling the actuator status.
WaitStopped_NoWait(s) == s

\* The polling loop that ends move_xyz: it is left only when CLA 1, 2 and 3
\* all report 'Stopped'.
WaitStopped(s) == [s EXCEPT !.moving = FALSE]

\* The stage sets out on a relative move.
StartMove(s, x, y, z) ==
    [s EXCEPT !.pos = <<@[1] + x, @[2] + y, @[3] + z>>,
              !.moving = TRUE,
              !.calls = Append(@, <<"move", x, y>>)]

move_scanner_xyz(s, x, y, z) ==
    IF s.exc THEN s
    ELSE IF Faulty(s) THEN DriverError(s)
    ELSE WaitStopped(StartMove(s, x, y, z))

\* The detector is read at the stage position; the entry also records
\* whether the actuators were in motion at that moment.
ReadCounter(s) == Log(s, <<"read", s.pos[1], s.pos[2], s.moving>>)

\* The (line, col) pair indexes the buffer (both indices are never negative
\* here, so numpy's wrap-around of negative indices plays no part).
InBuffer(d, l, c) == l \in DOMAIN d /\ c \in DOMAIN d[l]

\* self.data[l, c] = count_number, an IndexError outside the buffer.
Store(s, l, c, v) ==
    IF InBuffer(s.data, l, c)
    THEN [s EXCEPT !.data[l][c] = v,
                   !.calls = Append(@, <<"write", l, c>>)]
    ELSE Raise(s)

\* The column index without the mirroring.
ReversedColumn_Unmirrored(d, p) == p % Size0(d)

\* Column written on a line traversed right to left.
ReversedColumn(d, p) == Size0(d) - (p % Size0(d)) - 1

acquire_point(s) ==
    IF s.exc THEN s
    ELSE IF Faulty(s) THEN DriverError(s)
    ELSE Store(ReadCounter(s), s.line, s.point, get_counter(s.pos))

acquire_point_reversed(s) ==
    IF s.exc THEN s
    ELSE IF Faulty(s) THEN DriverError(s)
    ELSE LET r == ReadCounter(s)
         IN  IF Size0(s.data) = 0 THEN Raise(r)
             ELSE Store(r, s.line, ReversedColumn(s.data, s.point),
                        get_counter(s.pos))

\* The while loop of set_scan_begin_position from n on.
RECURSIVE BeginPositionLoop(_, _, _, _)
BeginPositionLoop(s, st, sd, n) ==
    IF 2 * n * st < sd
    THEN BeginPositionLoop(move_scanner_xyz(s, -st, -st, 0), st, sd, n + 1)
    ELSE s

\* The centering with its loop counter started at 1.
set_scan_begin_position_Short(s, st, sd) ==
    IF s.exc THEN s
    ELSE BeginPositionLoop(Log(s, <<"center", 0, 0>>), st, sd, 1)

set_scan_begin_position(s, st, sd) ==
    IF s.exc THEN s
    ELSE BeginPositionLoop(Log(s, <<"center", 0, 0>>), st, sd, 0)

\* Emission that leaves out signal_xy_image_updated.
Emit_Silent(s, sig) ==
    IF s.exc \/ sig = "updated" THEN s
    ELSE [s EXCEPT !.queue = Append(@, sig),
                   !.calls = Append(@, <<"emit", 0, 0>>)]

\* Emission of a signal: logged, and queued when the connection is queued.
Emit(s, sig) ==
    IF s.exc THEN s
    ELSE IF sig = "updated" THEN Log(s, <<"updated", 0, 0>>)
    ELSE [s EXCEPT !.queue = Append(@, sig),
                   !.calls = Append(@, <<"emit", 0, 0>>)]

\* Plain attribute updates, skipped once the slot has raised.
Bump(s, dline, dpoint, diter) ==
    IF s.exc THEN s
    ELSE [s EXCEPT !.line = @ + dline, !.point = @ + dpoint,
                   !.scan_iteration = @ + diter]

\* The point index left where the finished line ended.
ResetPoint_Keep(s) == s

ResetPoint(s) == IF s.exc THEN s ELSE [s EXCEPT !.point = 0]

-----------------------------------------------------------------------------
(* ConfocalScannerLogic *)

\* The line counter left as it was.
initialize_scan_KeepLine(s, st, sd) ==
    [s EXCEPT !.step = st, !.square_side = sd, !.point = 0,
              !.data = Zeros(RoundQuot(sd, st)), !.scan_iteration = 0,
              !.calls = <<<<"start_counter", s.pos[1], s.pos[2]>>>>,
              !.raised = FALSE]

initialize_scan(s, st, sd) ==
    [s EXCEPT !.step = st, !.square_side = sd, !.point = 0, !.line = 0,
              !.data = Zeros(RoundQuot(sd, st)), !.scan_iteration = 0,
              !.calls = <<<<"start_counter", s.pos[1], s.pos[2]>>>>,
              !.raised = FALSE]

\* The end test one iteration early.
SnakeLast_Early(s) ==
    (s.scan_iteration + 1) * s.step * s.step = s.square_side * s.square_side

\* scan_iteration == (square_side/step)**2
SnakeLast(s) ==
    s.scan_iteration * s.step * s.step = s.square_side * s.square_side

\* The end-of-line test one point early.
SnakeLineCompleted_Early(s) == s.point = IntQuot(s.square_side, s.step) - 1

\* point == int(square_side/step)
SnakeLineCompleted(s) == s.point = IntQuot(s.square_side, s.step)

snake_scan(s0) ==
    LET s == Log(s0, <<"step", 0, 0>>) IN
    IF s.scan_iteration = 0 THEN
        LET a == set_scan_begin_position(s, s.step, s.square_side)
            b == Emit(acquire_point(a), "updated")
        IN  Emit(Bump(b, 0, 1, 1), "snake")
    ELSE IF SnakeLast(s) THEN
        Bump(set_scan_begin_position(s, s.step, s.square_side), 0, 0, 1)
    ELSE
        LET a == IF SnakeLineCompleted(s) THEN
                     LET m == ResetPoint(Bump(move_scanner_xyz(s, 0, s.step, 0),
                                              1, 0, 0))
                     IN  IF m.line % 2 = 0 THEN acquire_point(m)
                         ELSE acquire_point_reversed(m)
                 ELSE IF s.line % 2 = 0 THEN
                     acquire_point(move_scanner_xyz(s, s.step, 0, 0))
                 ELSE
                     acquire_point_reversed(move_scanner_xyz(s, -s.step, 0, 0))
        IN  Emit(Bump(Emit(a, "updated"), 0, 1, 1), "snake")

\* scan_iteration == (square_side/step)**2 - 1
HorizontalLast(s) ==
    (s.scan_iteration + 1) * s.step * s.step = s.square_side * s.square_side

\* point == int(square_side/step) - 1
HorizontalLineCompleted(s) == s.point = IntQuot(s.square_side, s.step) - 1

\* The fly-back issued at the end of a line: -int(square_side/step).
Flyback(s) == - IntQuot(s.square_side, s.step)

horizontal_scan(s0) ==
    LET s == Log(s0, <<"step", 0, 0>>) IN
    IF s.scan_iteration = 0 THEN
        LET a == set_scan_begin_position(s, s.step, s.square_side)
            b == Emit(acquire_point(a), "updated")
        IN  Emit(Bump(b, 0, 1, 1), "horizontal")
    ELSE IF HorizontalLast(s) THEN
        Bump(set_scan_begin_position(s, s.step, s.square_side), 0, 0, 1)
    ELSE
        LET a == IF HorizontalLineCompleted(s) THEN
                     LET m == move_scanner_xyz(
                                  move_scanner_xyz(s, 0, s.step, 0),
                                  Flyback(s), 0, 0)
                     IN  Bump(ResetPoint(m), 1, 0, 0)
                 ELSE Bump(move_scanner_xyz(s, s.step, 0, 0), 0, 1, 0)
        IN  Emit(Bump(Emit(acquire_point(a), "updated"), 0, 0, 1),
                 "horizontal")
-----------------------------------------------------------------------------
(* The state machine *)

Steps == 1 .. MaxStep
Sides == 1 .. MaxSide

\* NIcard.__init__ / on_activate with all four axes configured.
InitNIcard ==
    /\ current_position = [i \in 1 .. 4 |-> 0]
    /\ scanner_state = "idle"
    /\ scanner_do = 0
    /\ nic_ret = 0
    /\ nic_log = ""
    /\ nic_request_out = FALSE

\* The interfuse keeps no state of its own; nothing has been scanned yet.
InitInterfuse ==
    /\ if_data = Zeros(0)
    /\ if_args = <<>>
    /\ if_pos = <<0, 0, 0>>

\* get_position_range() of the scanning device, the same for x and y.
FreshRange == <<0, 2>>

\* ConfocalHistoryEntry.__init__: the cursor at the centre of the range, the
\* image over the whole range; xy_image is not yet an attribute.
FreshEntry ==
    [current_x |-> (FreshRange[1] + FreshRange[2]) \div 2,
     current_y |-> (FreshRange[1] + FreshRange[2]) \div 2,
     image_x_range |-> FreshRange,
     image_y_range |-> FreshRange,
     xy_resolution |-> 100,
     xy_line_position |-> 0,
     xy_scan_continuable |-> FALSE,
     has_xy_image |-> FALSE,
     xy_image |-> <<>>]

\* NIcard.__init__ and on_activate: no clock task, the two clock channels
\* as configured.
InitClock ==
    /\ clock_daq_task = FALSE
    /\ scanner_clock_daq_task = FALSE
    /\ clock_channel = 0
    /\ scanner_clock_channel = 1
    /\ daq_tasks = [n \in {"CounterClock", "ScannerClock"} |-> 0]
    /\ clock_ret = 0
    /\ clock_calls = 0

\* No line path has been given yet.
InitStep ==
    /\ sp_line_path = <<<<>>, <<>>>>
    /\ sp_as_array = FALSE
    /\ sp_position = <<0, 0>>
    /\ sp_step_data = <<>>
    /\ sp_done = FALSE

InitEntry ==
    /\ he_entry = FreshEntry
    /\ he_restored = FreshEntry
    /\ he_done = FALSE

\* WLTLogic.on_activate: pos_start is the lower end of the z range.
InitWLT ==
    /\ wlt_log = <<>>
    /\ wlt_pos_start = 0
    /\ wlt_armed = FALSE
    /\ wlt_runs = 0
    /\ wlt_stops = 0
    /\ wlt_sweep_pending = 0

\* ScanLogic.__init__ and on_activate.
InitScanLogic ==
    /\ module_state = "idle"
    /\ stopRequested = FALSE
    /\ scan_counter = 0
    /\ xy_line_pos = 0
    /\ xyscan_continuable = FALSE
    /\ image_lines = 2
    /\ scan_queue = <<>>
    /\ in_line = FALSE
    /\ setting_up = ""
    /\ scanner_open = FALSE
    /\ clock_open = FALSE
    /\ scans = 0
    /\ stop_called = FALSE
    /\ begun_after_stop = 0
    /\ last_op = "activate"
    /\ lines_since_stop_call = -1
    /\ rows_stored = <<>>
    /\ setup_failed_at = ""
    /\ current_x = 0
    /\ current_y = 0
    /\ device_xy = <<0, 0>>
    /\ accepted_xy = <<0, 0>>
    /\ set_positions = 0
    /\ history_len = 1
    /\ history_index = 0

Init ==
    /\ step = 0
    /\ square_side = 0
    /\ point = 0
    /\ line = 0
    /\ data = Zeros(0)
    /\ scan_iteration = 0
    /\ queue = <<>>
    /\ pos = <<0, 0, 0>>
    /\ calls = <<>>
    /\ raised = FALSE
    /\ mode = "none"
    /\ presses = 0
    /\ stops = 0
    /\ saved = [mode |-> "none", step |-> 0, square_side |-> 0,
                data |-> Zeros(0), complete |-> FALSE]
    /\ moving = FALSE
    /\ failAt = 0
    /\ InitNIcard
    /\ InitInterfuse
    /\ InitScanLogic
    /\ InitWLT
    /\ InitEntry
    /\ InitStep
    /\ InitClock

\* The attributes, the event queue, the stage and the log after a slot.
Install(r) ==
    /\ step' = r.step
    /\ square_side' = r.square_side
    /\ point' = r.point
    /\ line' = r.line
    /\ data' = r.data
    /\ scan_iteration' = r.scan_iteration
    /\ queue' = r.queue
    /\ pos' = r.pos
    /\ calls' = r.calls
    /\ raised' = r.raised
    /\ moving' = r.moving
    /\ failAt' = r.failAt
    /\ UNCHANGED <<nicardVars, interfuseVars, sideVars, scanVars>>

\* No scan step is pending and the last one did not raise.
Finished == mode # "none" /\ queue = <<>> /\ ~raised

\* What a button press is about to overwrite.
Snapshot == [mode |-> mode, step |-> step, square_side |-> square_side,
             data |-> data, complete |-> Finished]

snake_scan_pushButton_clicked(st, sd, f) ==
    /\ presses < MaxPresses
    /\ Install(snake_scan(initialize_scan([Cur EXCEPT !.failAt = f], st, sd)))
    /\ mode' = "snake"
    /\ presses' = presses + 1
    /\ saved' = Snapshot
    /\ UNCHANGED stops

horizontal_scan_pushButton_clicked(st, sd, f) ==
    /\ presses < MaxPresses
    /\ Install(horizontal_scan(initialize_scan([Cur EXCEPT !.failAt = f],
                                                st, sd)))
    /\ mode' = "horizontal"
    /\ presses' = presses + 1
    /\ saved' = Snapshot
    /\ UNCHANGED stops

\* Delivery of the oldest queued signal_continue_snake_scan.
ContinueSnakeScan ==
    /\ queue # <<>>
    /\ Head(queue) = "snake"
    /\ scan_iteration < MaxIterations
    /\ Install(snake_scan([Cur EXCEPT !.queue = Tail(@)]))
    /\ UNCHANGED <<mode, presses, stops, saved>>

\* Delivery of the oldest queued signal_continue_horizontal_scan.
ContinueHorizontalScan ==
    /\ queue # <<>>
    /\ Head(queue) = "horizontal"
    /\ scan_iteration < MaxIterations
    /\ Install(horizontal_scan([Cur EXCEPT !.queue = Tail(@)]))
    /\ UNCHANGED <<mode, presses, stops, saved>>

\* The stage stop: three STP commands to the controller, nothing else.
\* The log entry records how many scan steps were pending at the time.
stop_CLAs ==
    /\ stops < MaxStops
    /\ stops' = stops + 1
    /\ calls' = Append(calls, <<"stop", Len(queue), 0>>)
    /\ moving' = FALSE
    /\ UNCHANGED <<step, square_side, point, line, data, scan_iteration,
                   queue, pos, raised, mode, presses, saved, failAt>>
    /\ UNCHANGED <<nicardVars, interfuseVars, sideVars, scanVars>>

\* The operator starts a scan only when none is running.
SnakeButton ==
    \E st \in Steps, sd \in Sides :
        queue = <<>> /\ snake_scan_pushButton_clicked(st, sd, 0)

HorizontalButton ==
    \E st \in Steps, sd \in Sides :
        queue = <<>> /\ horizontal_scan_pushButton_clicked(st, sd, 0)

Next ==
    \/ SnakeButton
    \/ HorizontalButton
    \/ ContinueSnakeScan
    \/ ContinueHorizontalScan

Spec == Init /\ [][Next]_vars

\* The same with the stage stop issued at any time.
NextStop ==
    \/ SnakeButton
    \/ HorizontalButton
    \/ ContinueSnakeScan
    \/ ContinueHorizontalScan
    \/ stop_CLAs

SpecStop == Init /\ [][NextStop]_vars

\* The scans against drivers of which one call raises.
Faults == 1 .. MaxFaultAt

SnakeButtonFaulty ==
    \E st \in Steps, sd \in Sides, f \in Faults :
        queue = <<>> /\ snake_scan_pushButton_clicked(st, sd, f)

HorizontalButtonFaulty ==
    \E st \in Steps, sd \in Sides, f \in Faults :
        queue = <<>> /\ horizontal_scan_pushButton_clicked(st, sd, f)

NextFault ==
    \/ SnakeButtonFaulty
    \/ HorizontalButtonFaulty
    \/ ContinueSnakeScan
    \/ ContinueHorizontalScan

SpecFault == Init /\ [][NextFault]_vars

\* The operator presses the scan buttons at any time.
SnakeButtonAnytime ==
    \E st \in Steps, sd \in Sides : snake_scan_pushButton_clicked(st, sd, 0)

HorizontalButtonAnytime ==
    \E st \in Steps, sd \in Sides :
        horizontal_scan_pushButton_clicked(st, sd, 0)

NextReentrant ==
    \/ SnakeButtonAnytime
    \/ HorizontalButtonAnytime
    \/ ContinueSnakeScan
    \/ ContinueHorizontalScan

SpecReentrant == Init /\ [][NextReentrant]_vars
-----------------------------------------------------------------------------
(* Reading the call log *)

\* Indices of the log entries of one kind.
Entries(op) == {i \in DOMAIN calls : calls[i][1] = op}

Count(op) == Cardinality(Entries(op))

\* Detector samples taken since initialize_scan.
Samples == Count("read")

\* Number of writes to data[l, c] since initialize_scan.
WritesTo(l, c) == Cardinality({i \in DOMAIN calls : calls[i] = <<"write", l, c>>})

\* n of the current scan and whether side is a whole multiple of step.
N == RoundQuot(square_side, step)
Multiple == step > 0 /\ square_side % step = 0
Cells == 0 .. N - 1

\* Every pending continuation of the scan has been delivered.
Drained == queue = <<>>

\* Where the first sample of the scan was taken: the start corner.
FirstRead == CHOOSE i \in Entries("read") : \A j \in Entries("read") : i <= j
CornerX == calls[FirstRead][2]
CornerY == calls[FirstRead][3]

\* Displacement of the stage since initialize_scan, whose log entry holds
\* the position the stage had then.
Displacement == <<pos[1] - calls[1][2], pos[2] - calls[1][3]>>

-----------------------------------------------------------------------------
(* Claims *)

\* C1: side a whole multiple of step, snake scan and all its continuations
\* run: exactly n*n samples were taken and every cell of the n x n buffer
\* was written exactly once.
C1_SnakeCoversEveryCellOnce ==
    (mode = "snake" /\ Drained /\ Multiple) =>
        /\ Samples = N * N
        /\ \A l \in Cells, c \in Cells : WritesTo(l, c) = 1

C1_Witness ==
    mode = "snake" /\ Drained /\ Multiple /\ N = 3 /\ Samples = 9

\* C2: after a complete snake scan data[line, col] holds the reading taken
\* at offset (col*step, line*step) from the start corner, on the lines
\* traversed right to left as well.
C2_SnakeImageIsSpatial ==
    (mode = "snake" /\ Drained /\ Multiple) =>
        \A l \in Cells, c \in Cells :
            data[l][c] = get_counter(<<CornerX + c * step, CornerY + l * step, 0>>)

C2_Witness ==
    /\ mode = "snake" /\ Drained /\ Multiple /\ N = 3
    /\ data[1][0] = get_counter(<<CornerX, CornerY + step, 0>>)
    /\ data[1][2] = get_counter(<<CornerX + 2 * step, CornerY + step, 0>>)
    /\ data[1][0] # data[1][2]
\* C3 (as claimed): side a whole multiple of step, horizontal scan and all
\* its continuations run: n*n samples were taken and every cell was written
\* exactly once.
C3_HorizontalCoversEveryCellOnce ==
    (mode = "horizontal" /\ Drained /\ Multiple) =>
        /\ Samples = N * N
        /\ \A l \in Cells, c \in Cells : WritesTo(l, c) = 1

\* C4 (as claimed): after a complete snake scan (both centering moves made)
\* the moves of the scan add up to no displacement in x and in y.
C4_SnakeReturnsToCentre ==
    (mode = "snake" /\ Drained /\ ~raised /\ Count("center") = 2) =>
        Displacement = <<0, 0>>

\* C5 (as claimed): for n = round(side/step) >= 1, side a multiple of step
\* or not, a snake scan that has nothing left scheduled made exactly one
\* centering-in, n*n acquisitions and one centering-out.
C5_SnakeEmitsNSquaredPlusTwo ==
    (mode = "snake" /\ Drained /\ N >= 1) =>
        /\ Count("center") = 2
        /\ Samples = N * N
        /\ ~raised

\* C6: in a snake scan with side a whole multiple of step the second
\* centering move is made by the step that finds scan_iteration = n*n and by
\* no other, that step emits no continue signal, and once it is made no step
\* is pending and n*n + 1 steps have run.
C6_Step ==
    (mode = "snake" /\ mode' = "snake" /\ presses' = presses /\ Multiple
        /\ scan_iteration' # scan_iteration) =>
        /\ (Count("center")' > Count("center")) <=> (scan_iteration = N * N)
        /\ (scan_iteration = N * N) => (queue' = <<>> /\ Count("emit")' = Count("emit"))

C6_SnakeReturnAtNSquared ==
    /\ []((mode = "snake" /\ Multiple /\ Count("center") = 2) =>
            (queue = <<>> /\ Count("step") = N * N + 1
             /\ scan_iteration = N * N + 1))
    /\ [][C6_Step]_vars

C6_Witness ==
    mode = "snake" /\ Multiple /\ Count("center") = 2 /\ N = 2

\* Log index of a stop issued while a scan step was pending.
StopsMidScan == {i \in Entries("stop") : calls[i][2] > 0}

\* C7 (as claimed): after a stop issued while a scan is in progress at most
\* one further scan step runs.
C7_StopHaltsWithinOneStep ==
    \A i \in StopsMidScan :
        Cardinality({j \in Entries("step") : j > i}) <= 1

\* C8 (as claimed): at most one scan-continuation signal is pending, for any
\* sequence of button presses and deliveries.
C8_OneContinuationPending == Len(queue) <= 1

\* C9 (as claimed): two complete snake scans in succession with the same
\* step and side leave the same image.
C9_SnakeTwiceSameImage ==
    (mode = "snake" /\ Finished /\ saved.mode = "snake" /\ saved.complete
        /\ saved.step = step /\ saved.square_side = square_side) =>
        data = saved.data

\* Pairs of consecutive samples of the log.
ConsecutiveReads ==
    {p \in Entries("read") \X Entries("read") :
        /\ p[1] < p[2]
        /\ \A k \in Entries("read") : ~(p[1] < k /\ k < p[2])}

\* The line a sample was stored in (its write is the next log entry).
LineOf(i) == calls[i + 1][2]

MovesBetween(i, j, m) ==
    Cardinality({k \in Entries("move") : i < k /\ k < j /\ calls[k] = m})

\* C10 (as claimed): in a horizontal scan, between the last sample of a line
\* and the first of the next the stage makes one -n*step move in x and one
\* +step move in y and no other, and the first sample of every line is
\* taken at the x of the first sample of line 0.
C10_HorizontalFlybackToLineStart ==
    (mode = "horizontal" /\ Multiple /\ ~raised) =>
        \A p \in ConsecutiveReads :
            (p[2] < Len(calls) /\ LineOf(p[1]) # LineOf(p[2])) =>
                /\ MovesBetween(p[1], p[2], <<"move", -(N * step), 0>>) = 1
                /\ MovesBetween(p[1], p[2], <<"move", 0, step>>) = 1
                /\ Cardinality({k \in Entries("move") : p[1] < k /\ k < p[2]}) = 2
                /\ calls[p[2]][2] = CornerX
\* C11: in a horizontal scan the first value written to a line is written
\* at column 0 of that line.
C11_HorizontalLineStartsAtColumn0 ==
    mode = "horizontal" =>
        \A i \in Entries("write") :
            (\A j \in Entries("write") : j < i => calls[j][2] # calls[i][2])
                => calls[i][3] = 0

C11_Witness ==
    /\ mode = "horizontal"
    /\ \E i \in Entries("write") : calls[i] = <<"write", 2, 0>>
    /\ \E i \in Entries("write") : calls[i] = <<"write", 1, 2>>

\* C12 (as claimed): with step = side either scan, once nothing is left
\* scheduled, has made one acquisition, written to data[0, 0], has moved the
\* stage only for the centering-in and the centering-out, and has ended
\* without an error.
C12_SinglePixelScan ==
    (mode # "none" /\ Drained /\ step = square_side) =>
        /\ Samples = 1
        /\ WritesTo(0, 0) = 1
        /\ Count("center") = 2
        /\ Count("move") = 2
        /\ \A i \in Entries("move") : calls[i] = <<"move", -step, -step>>
        /\ ~raised

\* C14: every write to the buffer is followed at once by one
\* signal_xy_image_updated emission and every emission follows a write, so
\* there are as many emissions as writes.
C14_UpdateAfterEveryWrite ==
    /\ Count("updated") = Count("write")
    /\ \A i \in Entries("write") :
           i < Len(calls) /\ calls[i + 1][1] = "updated"
    /\ \A i \in Entries("updated") : calls[i - 1][1] = "write"

C14_Witness ==
    mode = "horizontal" /\ Count("write") = 3 /\ Count("updated") = 3 /\ Drained
\* The moves of the set_scan_begin_position call logged at index i: the
\* run of move entries that follows it.
CenterMoves(i) ==
    {k \in Entries("move") :
        k > i /\ \A j \in (i + 1) .. k : calls[j][1] = "move"}

\* C16 (as claimed): for n >= 1 every set_scan_begin_position call makes
\* n/2 moves, all of (-step, -step), which add up to (-side/2, -side/2).
C16_CenteringIsHalfSide ==
    (mode # "none" /\ N >= 1) =>
        \A i \in Entries("center") :
            /\ \A k \in CenterMoves(i) : calls[k] = <<"move", -step, -step>>
            /\ 2 * Cardinality(CenterMoves(i)) = N
            /\ 2 * step * Cardinality(CenterMoves(i)) = square_side

\* C16 (amended): for n >= 1 every set_scan_begin_position call makes
\* k = ceil(side / (2*step)) moves, all of (-step, -step), which add up to
\* (-k*step, -k*step).
C16_CenteringIsCeilHalfSide ==
    (mode # "none" /\ N >= 1) =>
        \A i \in Entries("center") :
            LET k == Cardinality(CenterMoves(i)) IN
            /\ \A m \in CenterMoves(i) : calls[m] = <<"move", -step, -step>>
            /\ 2 * k * step >= square_side
            /\ 2 * (k - 1) * step < square_side

C16_Witness ==
    /\ mode # "none" /\ N >= 1 /\ step = 1 /\ square_side = 3
    /\ \E i \in Entries("center") : Cardinality(CenterMoves(i)) = 2
\* C13: the actuators are at rest whenever the detector is read and
\* between scan steps, and a read is followed by its buffer write before
\* anything else is asked of the drivers.
C13_MovesAndReadsSequential ==
    /\ ~moving
    /\ \A i \in Entries("read") :
           /\ calls[i][4] = FALSE
           /\ i = Len(calls) \/ calls[i + 1][1] = "write"

C13_Witness ==
    /\ mode = "snake" /\ Count("read") >= 3
    /\ \E i \in Entries("move") :
           calls[i + 1][1] = "read" /\ calls[i + 1][4] = FALSE

\* C17: when a stage move or a detector read raises in a scan step, that
\* step is the last: the failure ends the log, no continue signal is
\* pending, and scan_iteration counts only the steps before it.
C17_FaultAbandonsScan ==
    Count("fail") > 0 =>
        /\ queue = <<>>
        /\ Count("fail") = 1
        /\ calls[Len(calls)][1] = "fail"
        /\ scan_iteration = Count("emit")
        /\ Count("step") = Count("emit") + 1

C17_Witness ==
    /\ Count("fail") = 1 /\ mode = "horizontal" /\ scan_iteration = 1
    /\ Count("move") = 1 /\ Count("read") = 1 /\ queue = <<>> /\ raised

------------------------------------------------------------------------------
(* C15 *)

\* n is side/step rounded to the nearest integer, halves to the even one.
IsRounded(n, sd, st) ==
    LET d == IF sd >= n * st THEN sd - n * st ELSE n * st - sd
    IN  /\ n >= 0
        /\ 2 * d <= st
        /\ 2 * d = st => n % 2 = 0

\* C15: initialize_scan(step, side) called in any state, idle, finished or
\* in the middle of a scan, leaves point = 0, line = 0, scan_iteration = 0
\* and data an n x n buffer of zeros with n = round(side / step), and has
\* started the counter.
C15_InitializeScanResets ==
    \A st \in Steps, sd \in Sides :
        LET r == initialize_scan(Cur, st, sd)
            n == Size0(r.data)
        IN  /\ r.point = 0 /\ r.line = 0 /\ r.scan_iteration = 0
            /\ r.step = st /\ r.square_side = sd
            /\ IsRounded(n, sd, st)
            /\ DOMAIN r.data = 0 .. n - 1
            /\ \A m \in 0 .. n - 1 :
                   /\ DOMAIN r.data[m] = 0 .. n - 1
                   /\ \A c \in 0 .. n - 1 : r.data[m][c] = 0
            /\ r.calls[1][1] = "start_counter"

\* A scan in the middle of its second line, started by a button press that
\* re-initialised a finished scan of another size.
C15_Witness ==
    /\ presses = 2 /\ saved.complete /\ Size0(saved.data) # Size0(data)
    /\ queue # <<>> /\ line = 1 /\ point = 1
    /\ Count("step") = scan_iteration /\ calls[1][1] = "start_counter"

------------------------------------------------------------------------------
(* NIcard.scanner_set_position *)

\* The axes x, y, z, a in the order scanner_set_position handles them.
Axes == 1 .. 4
AxisName == <<"x", "y", "z", "a">>

\* self._position_range, the same on every axis.
position_range == [i \in Axes |-> <<0, MaxRange>>]

\* What a caller asks for on one axis: anything from one unit below the
\* range to one unit above it.
Coordinates == -1 .. MaxRange + 1

\* A request names any subset of the axes; an axis left out is None.
Requests == UNION {[S -> Coordinates] : S \in SUBSET Axes}

\* self._position_range[i][0] <= v <= self._position_range[i][1]
InRange(i, v) == position_range[i][1] <= v /\ v <= position_range[i][2]

\* Some coordinate of the request lies outside its axis' range.
OutOfRange(req) == \E i \in DOMAIN req : ~InRange(i, req[i])

\* The four "if ... is not None" blocks in turn, from axis i on: the first
\* coordinate out of range ends the call, the ones before it are stored.
RECURSIVE SetAxes(_, _, _)
SetAxes(p, req, i) ==
    IF i > 4 THEN [pos |-> p, err |-> 0]
    ELSE IF i \notin DOMAIN req THEN SetAxes(p, req, i + 1)
    ELSE IF ~InRange(i, req[i]) THEN [pos |-> p, err |-> i]
    ELSE SetAxes([p EXCEPT ![i] = req[i]], req, i + 1)

\* self._write_scanner_do(self, step_data=..., length=0, start=True): the
\* bound method is handed self a second time, which binds step_data twice;
\* the call raises TypeError before anything reaches the card, and the bare
\* except turns that into -1.
write_scanner_do_raises == TRUE

scanner_set_position(req) ==
    /\ nic_request_out' = OutOfRange(req)
    /\ IF scanner_state = "locked"
       THEN /\ nic_log' = "locked"
            /\ nic_ret' = -1
            /\ UNCHANGED <<current_position, scanner_do>>
       ELSE LET r == SetAxes(current_position, req, 1)
            IN  /\ current_position' = r.pos
                /\ IF r.err # 0
                   THEN /\ nic_log' = AxisName[r.err]
                        /\ nic_ret' = -1
                        /\ UNCHANGED scanner_do
                   ELSE /\ nic_log' = ""
                        /\ IF write_scanner_do_raises
                           THEN nic_ret' = -1 /\ UNCHANGED scanner_do
                           ELSE nic_ret' = 0 /\ scanner_do' = scanner_do + 1
    /\ UNCHANGED <<scanner_state, confocalVars, interfuseVars, sideVars, scanVars>>

\* ScanLogic locks the card for the time of a scan ...
NIcardLock ==
    /\ scanner_state = "idle"
    /\ scanner_state' = "locked"
    /\ nic_request_out' = FALSE
    /\ UNCHANGED <<current_position, scanner_do, nic_ret, nic_log,
                   confocalVars, interfuseVars, sideVars, scanVars>>

\* ... and unlocks it when it kills the scanner.
NIcardUnlock ==
    /\ scanner_state = "locked"
    /\ scanner_state' = "idle"
    /\ nic_request_out' = FALSE
    /\ UNCHANGED <<current_position, scanner_do, nic_ret, nic_log,
                   confocalVars, interfuseVars, sideVars, scanVars>>

SetPosition == \E req \in Requests : scanner_set_position(req)

NextNIcard ==
    \/ SetPosition
    \/ NIcardLock
    \/ NIcardUnlock

SpecNIcard == Init /\ [][NextNIcard]_vars

\* C18: NIcard.scanner_set_position called with any requested coordinate
\* (x, y, z or a) outside its configured position range returns -1, writes
\* nothing to the hardware, and leaves the stored current position
\* unchanged in every axis.
C18_OutOfRangeRejected ==
    [][nic_request_out' =>
          /\ nic_ret' = -1
          /\ scanner_do' = scanner_do
          /\ current_position' = current_position]_vars

------------------------------------------------------------------------------
(* confocal_scanner_JPE_CPSHR3_nicard_interfuse.snake_scan *)

\* create_map(step, square_side)
create_map(st, sd) == Zeros(RoundQuot(sd, st))

\* self._scanner_logic.move_xyz(dx, dy, 0): a relative move that returns
\* when the stage has stopped.
InterfuseMove(r, dx, dy) ==
    [r EXCEPT !.pos = <<@[1] + dx, @[2] + dy, @[3]>>]

\* data[m, n] = get_counter(1)[0, 0]
InterfuseRead(r, m, n) == [r EXCEPT !.data[m][n] = get_counter(r.pos)]

\* while n < side_points_number: move +step, read, n += 1
RECURSIVE InterfuseForward(_, _, _, _, _)
InterfuseForward(r, st, cnt, m, n) ==
    IF n < cnt
    THEN InterfuseForward(InterfuseRead(InterfuseMove(r, st, 0), m, n),
                          st, cnt, m, n + 1)
    ELSE r

\* while n >= 0: move -step, read, n -= 1
RECURSIVE InterfuseBackward(_, _, _, _)
InterfuseBackward(r, st, m, n) ==
    IF n >= 0
    THEN InterfuseBackward(InterfuseRead(InterfuseMove(r, 0 - st, 0), m, n),
                           st, m, n - 1)
    ELSE r

\* while m < side_points_number: one line, move (0, step), m += 1
RECURSIVE InterfuseLines(_, _, _, _)
InterfuseLines(r, st, cnt, m) ==
    IF m < cnt
    THEN LET l == IF m % 2 = 0
                  THEN InterfuseForward(r, st, cnt, m, 0)
                  ELSE InterfuseBackward(r, st, m, cnt - 1)
         IN  InterfuseLines(InterfuseMove(l, 0, st), st, cnt, m + 1)
    ELSE r

\* The image and the final stage position of snake_scan(step, square_side)
\* with the stage at start.
interfuse_snake_scan(st, sd, start) ==
    InterfuseLines([data |-> create_map(st, sd), pos |-> start],
                   st, RoundQuot(sd, st), 0)

\* Start positions the interfuse is run from: the corners a signal-driven
\* scan can start at.
Starts == {<<0 - c, 0 - c, 0>> : c \in 0 .. MaxSide}

\* One call of the interfuse's snake_scan; it blocks its caller until the
\* whole image is taken.  It is called when no signal-driven scan is
\* pending, with a stage of its own placed at start.
InterfuseSnakeScan ==
    \E st \in Steps, sd \in Sides, start \in Starts :
        /\ queue = <<>>
        /\ if_args = <<>>
        /\ LET r == interfuse_snake_scan(st, sd, start)
           IN  /\ if_data' = r.data
               /\ if_pos' = r.pos
        /\ if_args' = <<st, sd, start>>
        /\ UNCHANGED <<confocalVars, nicardVars, scanVars, sideVars>>

NextInterfuse ==
    \/ SnakeButton
    \/ ContinueSnakeScan
    \/ InterfuseSnakeScan

SpecInterfuse == Init /\ [][NextInterfuse]_vars

\* C19: the synchronous snake_scan loop of the JPE/NI interfuse is
\* equivalent to the signal-driven snake scan of ConfocalScannerLogic: for
\* the same step, side, start corner and position-dependent detector both
\* produce the same n x n image, each cell (m, c) holding the reading at
\* stage offset (c*step, m*step), so even and odd rows are spatially
\* aligned.
C19_InterfuseSameImage ==
    (/\ mode = "snake" /\ Finished /\ Multiple
     /\ if_args = <<step, square_side, <<CornerX, CornerY, 0>>>>) =>
        /\ if_data = data
        /\ \A m \in Cells, c \in Cells :
               if_data[m][c] =
                   get_counter(<<CornerX + c * step, CornerY + m * step, 0>>)

------------------------------------------------------------------------------
(* ScanLogic: start, line by line, stop *)

(* ScanLogic runs its slots one at a time; start_scanning, continue_scanning *)
(* and stop_scanning are plain methods that any caller may run while a line *)
(* is being scanned or set up, so _scan_line is two steps: the delivery of  *)
(* signal_scan_lines_next up to the first scan_line call, and the rest once  *)
(* the device has returned; start_scanner and continue_scanner are two      *)
(* steps as well: the locking, and the setting up of the device.  The stage *)
(* position is not followed here:                                           *)
(* set_position('scanner') and the device's scan_line leave no trace in     *)
(* this part of the model.                                                  *)

\* Everything of the card but its lock.
nicardRest == <<current_position, scanner_do, nic_ret, nic_log,
                nic_request_out>>

\* self.permanent_scan is set in __init__ and nowhere else.
permanent_scan == FALSE

\* self.signal_scan_lines_next.emit() after the head of the queue is taken.
EmitLinesNext == scan_queue' = Append(Tail(scan_queue), "lines_next")

\* The one thread of ScanLogic is inside a slot.
InSlot == in_line \/ setting_up # ""

\* start_scanning or continue_scanning has returned and the scan it asked
\* for has not come to its end.
ScanUnderWay == module_state = "locked" \/ scan_queue # <<>> \/ InSlot

\* No call is made while a scan is set up, running or being wound down.
ScanIdle == module_state = "idle" /\ scan_queue = <<>> /\ ~InSlot

start_scanning ==
    /\ scans < MaxScans
    /\ ScanIdle
    /\ scan_counter' = 0
    /\ xyscan_continuable' = TRUE
    /\ scan_queue' = Append(scan_queue, "start")
    /\ scans' = scans + 1
    /\ last_op' = "start_scanning"
    /\ UNCHANGED <<module_state, stopRequested, xy_line_pos, image_lines,
                   in_line, setting_up, scanner_open, clock_open, stop_called,
                   begun_after_stop>>
    /\ UNCHANGED <<confocalVars, nicardVars, interfuseVars, sideVars>>
    /\ lines_since_stop_call' = -1
    /\ UNCHANGED rows_stored
    /\ UNCHANGED setup_failed_at
    /\ UNCHANGED current_x
    /\ UNCHANGED current_y
    /\ UNCHANGED device_xy
    /\ UNCHANGED accepted_xy
    /\ UNCHANGED set_positions
    /\ UNCHANGED history_len
    /\ UNCHANGED history_index

continue_scanning ==
    /\ scans < MaxScans
    /\ ScanIdle
    /\ scan_counter' = xy_line_pos
    /\ scan_queue' = Append(scan_queue, "continue")
    /\ scans' = scans + 1
    /\ last_op' = "continue_scanning"
    /\ UNCHANGED <<module_state, stopRequested, xy_line_pos,
                   xyscan_continuable, image_lines, in_line, setting_up,
                   scanner_open, clock_open, stop_called, begun_after_stop>>
    /\ UNCHANGED <<confocalVars, nicardVars, interfuseVars, sideVars>>
    /\ lines_since_stop_call' = -1
    /\ UNCHANGED rows_stored
    /\ UNCHANGED setup_failed_at
    /\ UNCHANGED current_x
    /\ UNCHANGED current_y
    /\ UNCHANGED device_xy
    /\ UNCHANGED accepted_xy
    /\ UNCHANGED set_positions
    /\ UNCHANGED history_len
    /\ UNCHANGED history_index

\* The with-block of stop_scanning.  signal_stop_scanning has no slot
\* connected in ScanLogic.
stop_scanning ==
    /\ stopRequested' = (stopRequested \/ module_state = "locked")
    /\ stop_called' = (stop_called \/ module_state = "locked")

\* stop_scanning() called from outside, at any time.
StopScanning ==
    /\ stop_scanning
    /\ last_op' = "stop_scanning"
    /\ UNCHANGED <<module_state, scan_counter, xy_line_pos,
                   xyscan_continuable, image_lines, scan_queue, in_line,
                   setting_up, scanner_open, clock_open, scans,
                   begun_after_stop>>
    /\ UNCHANGED <<confocalVars, nicardVars, interfuseVars, sideVars>>
    /\ lines_since_stop_call' =
           (IF ScanUnderWay /\ lines_since_stop_call = -1
            THEN 0 ELSE lines_since_stop_call)
    /\ UNCHANGED rows_stored
    /\ UNCHANGED setup_failed_at
    /\ UNCHANGED current_x
    /\ UNCHANGED current_y
    /\ UNCHANGED device_xy
    /\ UNCHANGED accepted_xy
    /\ UNCHANGED set_positions
    /\ UNCHANGED history_len
    /\ UNCHANGED history_index

\* self.lock(); self._scanning_device.lock() at the head of start_scanner
\* and continue_scanner.
LockForScan(slot) ==
    /\ ~InSlot
    /\ scan_queue # <<>> /\ Head(scan_queue) = slot
    /\ scan_queue' = Tail(scan_queue)
    /\ module_state' = "locked"
    /\ scanner_state' = "locked"
    /\ setting_up' = slot
    /\ last_op' = "locked"
    /\ UNCHANGED <<stopRequested, scan_counter, xy_line_pos,
                   xyscan_continuable, image_lines, in_line, scanner_open,
                   clock_open, scans, stop_called, begun_after_stop>>
    /\ UNCHANGED <<confocalVars, nicardRest, interfuseVars, sideVars>>
    /\ UNCHANGED lines_since_stop_call
    /\ UNCHANGED rows_stored
    /\ setup_failed_at' = ""
    /\ UNCHANGED current_x
    /\ UNCHANGED current_y
    /\ UNCHANGED device_xy
    /\ UNCHANGED accepted_xy
    /\ UNCHANGED set_positions
    /\ UNCHANGED history_len
    /\ UNCHANGED history_index

StartScannerLock == LockForScan("start")

ContinueScannerLock == LockForScan("continue")

\* What setting up the device can come to.
SetupOutcomes == {"image", "clock", "scanner", "ok"}

ClockAfterFailure_LeftOpen(outcome) ==
    IF outcome = "scanner" THEN TRUE ELSE clock_open

\* The scanner clock when a set-up step returned a negative status: a
\* failure before or in set_up_scanner_clock leaves no new clock, a failure
\* of set_up_scanner is answered with close_scanner_clock.
ClockAfterFailure(outcome) ==
    IF outcome = "scanner" THEN FALSE ELSE clock_open

\* Set up the clock and the scanner; any failure undoes what was set up and
\* unlocks, success emits the first signal_scan_lines_next.
SetUp(outcome) ==
    /\ setting_up' = ""
    /\ IF outcome = "ok"
       THEN /\ clock_open' = TRUE
            /\ scanner_open' = TRUE
            /\ scan_queue' = Append(scan_queue, "lines_next")
            /\ UNCHANGED <<module_state, scanner_state>>
       ELSE /\ module_state' = "idle"
            /\ scanner_state' = "idle"
            /\ clock_open' = ClockAfterFailure(outcome)
            /\ UNCHANGED <<scanner_open, scan_queue>>

start_scanner ==
    \E outcome \in SetupOutcomes, lines \in 2 .. MaxLines :
        /\ setting_up = "start"
        /\ SetUp(outcome)
        /\ image_lines' = (IF outcome = "image" THEN image_lines ELSE lines)
        /\ last_op' = "start_scanner"
        /\ UNCHANGED <<stopRequested, scan_counter, xy_line_pos,
                       xyscan_continuable, in_line, scans, stop_called,
                       begun_after_stop>>
        /\ UNCHANGED <<confocalVars, nicardRest, interfuseVars, sideVars>>
        /\ lines_since_stop_call' =
               (IF outcome = "ok" THEN lines_since_stop_call ELSE -1)
        /\ rows_stored' = (IF outcome = "image" THEN rows_stored ELSE <<>>)
        /\ setup_failed_at' = (IF outcome = "ok" THEN "" ELSE outcome)
        /\ UNCHANGED current_x
        /\ UNCHANGED current_y
        /\ device_xy' = (IF outcome \in {"clock", "scanner"}
                          THEN <<current_x, current_y>> ELSE device_xy)
        /\ UNCHANGED accepted_xy
        /\ UNCHANGED set_positions
        /\ UNCHANGED history_len
        /\ UNCHANGED history_index

continue_scanner ==
    \E outcome \in SetupOutcomes \ {"image"} :
        /\ setting_up = "continue"
        /\ SetUp(outcome)
        /\ last_op' = "continue_scanner"
        /\ UNCHANGED <<stopRequested, scan_counter, xy_line_pos,
                       xyscan_continuable, image_lines, in_line, scans,
                       stop_called, begun_after_stop>>
        /\ UNCHANGED <<confocalVars, nicardRest, interfuseVars, sideVars>>
        /\ lines_since_stop_call' =
               (IF outcome = "ok" THEN lines_since_stop_call ELSE -1)
        /\ UNCHANGED rows_stored
        /\ setup_failed_at' = (IF outcome = "ok" THEN "" ELSE outcome)
        /\ UNCHANGED current_x
        /\ UNCHANGED current_y
        /\ device_xy' = (IF outcome \in {"clock", "scanner"}
                          THEN <<current_x, current_y>> ELSE device_xy)
        /\ UNCHANGED accepted_xy
        /\ UNCHANGED set_positions
        /\ UNCHANGED history_len
        /\ UNCHANGED history_index

\* The clock is left running.
kill_scanner_ClockLeftOpen ==
    /\ scanner_open' = FALSE
    /\ clock_open' = clock_open
    /\ scanner_state' = "idle"

kill_scanner ==
    /\ scanner_open' = FALSE
    /\ clock_open' = FALSE
    /\ scanner_state' = "idle"

append_history_NoPop(len) == len + 1

\* The length of self.history after the stop branch has appended its entry
\* and popped the oldest one if the list had grown past max_history_length.
append_history(len) ==
    IF len + 1 > max_history_length THEN len + 1 - 1 ELSE len + 1

\* _scan_line with stopRequested set.
ScanLineStop ==
    /\ kill_scanner
    /\ stopRequested' = FALSE
    /\ module_state' = "idle"
    /\ xy_line_pos' = scan_counter
    /\ scan_queue' = Tail(scan_queue)
    /\ stop_called' = FALSE
    /\ begun_after_stop' = 0
    /\ last_op' = (IF lines_since_stop_call >= 0 THEN "stopped_on_request"
                   ELSE IF stop_called THEN "stopped_by_itself"
                   ELSE "stopped_on_failure")
    /\ UNCHANGED <<scan_counter, xyscan_continuable, image_lines, in_line,
                   setting_up, scans>>
    /\ lines_since_stop_call' = -1
    /\ UNCHANGED rows_stored
    /\ UNCHANGED setup_failed_at
    /\ UNCHANGED current_x
    /\ UNCHANGED current_y
    /\ device_xy' = <<current_x, current_y>>
    /\ UNCHANGED accepted_xy
    /\ UNCHANGED set_positions
    /\ history_len' = append_history(history_len)
    /\ history_index' = history_len' - 1

\* image[self._scan_counter, ...] with the counter past the last line
\* raises; the except clause calls stop_scanning and emits.
ScanLineIndexError ==
    /\ stop_scanning
    /\ EmitLinesNext
    /\ last_op' = "raised"
    /\ UNCHANGED <<module_state, scan_counter, xy_line_pos,
                   xyscan_continuable, image_lines, in_line, setting_up,
                   scanner_open, clock_open, scans, begun_after_stop,
                   scanner_state>>
    /\ UNCHANGED lines_since_stop_call
    /\ UNCHANGED rows_stored
    /\ UNCHANGED setup_failed_at
    /\ UNCHANGED current_x
    /\ UNCHANGED current_y
    /\ UNCHANGED device_xy
    /\ UNCHANGED accepted_xy
    /\ UNCHANGED set_positions
    /\ UNCHANGED history_len
    /\ UNCHANGED history_index

\* The device starts on the line.
ScanLineBegin ==
    /\ in_line' = TRUE
    /\ scan_queue' = Tail(scan_queue)
    /\ begun_after_stop' = (IF stop_called THEN begun_after_stop + 1 ELSE 0)
    /\ last_op' = "line_begun"
    /\ UNCHANGED <<module_state, stopRequested, scan_counter, xy_line_pos,
                   xyscan_continuable, image_lines, setting_up, scanner_open,
                   clock_open, scans, stop_called, scanner_state>>
    /\ lines_since_stop_call' =
           (IF lines_since_stop_call >= 0
            THEN lines_since_stop_call + 1 ELSE -1)
    /\ UNCHANGED rows_stored
    /\ UNCHANGED setup_failed_at
    /\ UNCHANGED current_x
    /\ UNCHANGED current_y
    /\ UNCHANGED device_xy
    /\ UNCHANGED accepted_xy
    /\ UNCHANGED set_positions
    /\ UNCHANGED history_len
    /\ UNCHANGED history_index

\* Delivery of signal_scan_lines_next.
ScanLineStart ==
    /\ ~InSlot
    /\ scan_queue # <<>> /\ Head(scan_queue) = "lines_next"
    /\ IF stopRequested THEN ScanLineStop
       ELSE IF scan_counter >= image_lines THEN ScanLineIndexError
       ELSE ScanLineBegin
    /\ UNCHANGED <<confocalVars, nicardRest, interfuseVars, sideVars>>

\* What the device makes of the line: it returns the counts, it returns -1,
\* or it raises.
LineOutcomes == {"ok", "fail", "raise"}

\* self._return_YL, which the return line is built from, is assigned nowhere
\* (initialize_image sets _return_XL and _return_AL): reading it raises
\* AttributeError inside the try block.
return_YL_defined == FALSE

\* The counts of the line reach "self.xy_image[self._scan_counter, ...] =".
LineStored(outcome) == outcome = "ok" /\ return_YL_defined

\* The rest of _scan_line once the device is back.
ScanLineEnd ==
    \E outcome \in LineOutcomes :
        /\ in_line
        /\ in_line' = FALSE
        /\ scan_queue' = Append(scan_queue, "lines_next")
        /\ last_op' = outcome
        /\ IF outcome = "fail"
           THEN /\ stopRequested' = TRUE
                /\ UNCHANGED <<scan_counter, xyscan_continuable, stop_called>>
           ELSE IF ~LineStored(outcome)
           THEN /\ stop_scanning
                /\ UNCHANGED <<scan_counter, xyscan_continuable>>
           ELSE /\ scan_counter' =
                       (IF scan_counter + 1 >= image_lines /\ permanent_scan
                        THEN 0 ELSE scan_counter + 1)
                /\ IF scan_counter + 1 >= image_lines /\ ~permanent_scan
                   THEN stop_scanning /\ xyscan_continuable' = FALSE
                   ELSE UNCHANGED <<stopRequested, stop_called,
                                    xyscan_continuable>>
        /\ UNCHANGED <<module_state, xy_line_pos, image_lines, setting_up,
                       scanner_open, clock_open, scans, begun_after_stop>>
        /\ UNCHANGED <<confocalVars, nicardVars, interfuseVars, sideVars>>
        /\ UNCHANGED lines_since_stop_call
        /\ rows_stored' = (IF LineStored(outcome)
                           THEN Append(rows_stored, scan_counter)
                           ELSE rows_stored)
        /\ UNCHANGED setup_failed_at
        /\ UNCHANGED current_x
        /\ UNCHANGED current_y
        /\ UNCHANGED device_xy
        /\ UNCHANGED accepted_xy
        /\ UNCHANGED set_positions
        /\ UNCHANGED history_len
        /\ UNCHANGED history_index

NextScanLogic ==
    \/ start_scanning
    \/ continue_scanning
    \/ StopScanning
    \/ StartScannerLock
    \/ ContinueScannerLock
    \/ start_scanner
    \/ continue_scanner
    \/ ScanLineStart
    \/ ScanLineEnd

SpecScanLogic == Init /\ [][NextScanLogic]_vars

------------------------------------------------------------------------------
(* The slots of ScanLogic are delivered and the device returns *)

SpecScanLogicFair ==
    /\ Init /\ [][NextScanLogic]_vars
    /\ WF_vars(StartScannerLock) /\ WF_vars(ContinueScannerLock)
    /\ WF_vars(start_scanner) /\ WF_vars(continue_scanner)
    /\ WF_vars(ScanLineStart) /\ WF_vars(ScanLineEnd)

\* The scan that was asked to stop comes to its end.
C21_Eventually == (lines_since_stop_call >= 0) ~> ~ScanUnderWay

\* C21: every stop_scanning() call made after start_scanning() has returned
\* eventually stops that scan (module unlocked, no further line scheduled),
\* for every interleaving of the call with the queued start_scanner and
\* _scan_line handlers, including a stop that arrives before start_scanner
\* has run: after the call no line of that scan is begun, and the scan comes
\* to its end.
C21_StopStopsScan ==
    /\ [](lines_since_stop_call <= 0)
    /\ C21_Eventually

------------------------------------------------------------------------------
(* C22 *)

\* C22: while no stop is requested and the scanning device reports no
\* error, each _scan_line invocation stores the scanned line's counts in row
\* _scan_counter of xy_image and increments _scan_counter by one, so a
\* non-permanent scan fills rows 0..N-1 in order and only then requests stop
\* and sets _xyscan_continuable to False.
C22_LinesStoredInOrder ==
    /\ [][(in_line /\ ~in_line' /\ last_op' = "ok") =>
              /\ rows_stored' = Append(rows_stored, scan_counter)
              /\ scan_counter' = scan_counter + 1]_vars
    /\ [][(xyscan_continuable /\ ~xyscan_continuable') =>
              /\ rows_stored' = [i \in 1 .. image_lines |-> i - 1]
              /\ stopRequested']_vars

(***************************************************************************)
(* WLTLogic: a white-light-transmission measurement.  The scanner and the  *)
(* spectrometer are reached through connectors; wlt_log records what is    *)
(* asked of them, in order.                                                *)
(***************************************************************************)

CavityPositions == 0 .. MaxCavityPos

Op(name) == <<name, 0>>

\* WLTLogic.set_cavity_position
set_cavity_position(position) == <<"set_position", position>>

\* WLTLogic._set_up_kinetic_scan
set_up_kinetic_scan == Op("kinetic_scan")

\* WLTLogic.start_wlt_measurement, called by the operator (sigStartWLTScan).
\* sigMeasurementStarted is connected to the scanner's start_sweep, which
\* lives in another module: the call is delivered later.
start_wlt_measurement ==
    /\ wlt_runs < MaxMeasurements
    /\ \E pos_start \in CavityPositions :
        /\ wlt_pos_start' = pos_start
        /\ wlt_log' = wlt_log \o <<set_cavity_position(pos_start),
                                   Op("set_up_sweep"),
                                   set_up_kinetic_scan,
                                   Op("start_acquiring")>>
    /\ wlt_armed' = TRUE
    /\ wlt_sweep_pending' = wlt_sweep_pending + 1
    /\ wlt_runs' = wlt_runs + 1
    /\ UNCHANGED wlt_stops
    /\ UNCHANGED besideWLT

\* The scanner's start_sweep slot runs.
StartSweep ==
    /\ wlt_sweep_pending > 0
    /\ wlt_sweep_pending' = wlt_sweep_pending - 1
    /\ wlt_log' = Append(wlt_log, Op("start_sweep"))
    /\ UNCHANGED <<wlt_pos_start, wlt_armed, wlt_runs, wlt_stops>>
    /\ UNCHANGED besideWLT

stop_wlt_measurement_StopFirst(pos_start) ==
    <<Op("set_trigger_mode"), Op("stop_sweep"), Op("save_xy_data"),
      Op("save_position_data"), set_cavity_position(pos_start)>>

\* WLTLogic.stop_wlt_measurement: what it asks for, in order.
stop_wlt_measurement(pos_start) ==
    <<Op("set_trigger_mode"), Op("save_xy_data"), Op("save_position_data"),
      Op("stop_sweep"), set_cavity_position(pos_start)>>

\* WLTLogic.update_image_data, the slot of the spectrometer's
\* sigImageDataAcquired.  sigMeasurementFinished is connected to
\* stop_wlt_measurement of the same object, so that runs inside the emit.
update_image_data ==
    /\ wlt_armed
    /\ wlt_armed' = FALSE
    /\ wlt_log' = wlt_log \o <<Op("image_acquired"), Op("read_position"),
                               Op("image_updated")>>
                          \o stop_wlt_measurement(wlt_pos_start)
    /\ UNCHANGED <<wlt_pos_start, wlt_runs, wlt_stops, wlt_sweep_pending>>
    /\ UNCHANGED besideWLT

\* The operator stops the measurement (sigStopWLTScan).
StopWltMeasurement ==
    /\ wlt_stops < MaxWltStops
    /\ wlt_stops' = wlt_stops + 1
    /\ wlt_log' = wlt_log \o stop_wlt_measurement(wlt_pos_start)
    /\ UNCHANGED <<wlt_pos_start, wlt_armed, wlt_runs, wlt_sweep_pending>>
    /\ UNCHANGED besideWLT

NextWLT ==
    \/ start_wlt_measurement
    \/ StartSweep
    \/ update_image_data
    \/ StopWltMeasurement

SpecWLT == Init /\ [][NextWLT]_vars

WltCount(name, i) == Cardinality({j \in 1 .. i : wlt_log[j][1] = name})

\* pos_start as it stood when entry i was logged: the position the latest
\* start_wlt_measurement before i moved the cavity to.
PosStartAt(i) ==
    LET starts == {j \in 1 .. i - 1 : /\ wlt_log[j][1] = "set_position"
                                      /\ j < Len(wlt_log)
                                      /\ wlt_log[j + 1][1] = "set_up_sweep"}
    IN  IF starts = {} THEN 0
        ELSE wlt_log[CHOOSE j \in starts : \A k \in starts : k <= j][2]

\* C23: in a white-light-transmission measurement the sweep is configured
\* and the spectrometer armed for a kinetic scan before the sweep is
\* started, the position read-back and the image update come only after the
\* spectrometer signalled its image, and image and position data are saved
\* before the sweep is stopped and the cavity sent back to pos_start.
C23_WltOrder ==
    \A i \in 1 .. Len(wlt_log) :
        /\ wlt_log[i][1] = "start_sweep" =>
              /\ WltCount("start_sweep", i) <= WltCount("start_acquiring", i)
              /\ \E j \in 1 .. i - 3 :
                    /\ wlt_log[j][1] = "set_up_sweep"
                    /\ wlt_log[j + 1][1] = "kinetic_scan"
                    /\ wlt_log[j + 2][1] = "start_acquiring"
        /\ wlt_log[i][1] = "read_position" =>
              /\ i > 1 /\ wlt_log[i - 1][1] = "image_acquired"
              /\ wlt_log[i + 1][1] = "image_updated"
        /\ wlt_log[i][1] = "image_updated" =>
              /\ i > 2 /\ wlt_log[i - 2][1] = "image_acquired"
        /\ wlt_log[i][1] = "stop_sweep" =>
              /\ i > 2
              /\ wlt_log[i - 2][1] = "save_xy_data"
              /\ wlt_log[i - 1][1] = "save_position_data"
              /\ wlt_log[i + 1] = set_cavity_position(PosStartAt(i))

C23_Witness ==
    /\ wlt_runs = 2 /\ wlt_stops = 1 /\ ~wlt_armed /\ wlt_sweep_pending = 0
    /\ WltCount("start_sweep", Len(wlt_log)) = 2
    /\ WltCount("image_acquired", Len(wlt_log)) = 2
    /\ wlt_log[Len(wlt_log)] = set_cavity_position(1)
    /\ wlt_log[1] = set_cavity_position(0)

-----------------------------------------------------------------------------
(* The indices of the writes of a scan *)

\* C24 (as claimed): during a scan of a buffer of n = round(side/step) >= 1
\* rows, side a multiple of step or not, every write of snake_scan and
\* horizontal_scan indexes the buffer inside 0..n-1: no write is outside it
\* (numpy refuses such a write with an IndexError, which ends the slot) and
\* every write made is inside it.
C24_WritesInsideBuffer ==
    (mode # "none" /\ step > 0 /\ square_side > 0 /\ N >= 1) =>
        /\ ~raised
        /\ \A i \in Entries("write") :
              calls[i][2] \in 0 .. N - 1 /\ calls[i][3] \in 0 .. N - 1

-----------------------------------------------------------------------------
(* A set-up that fails *)

-----------------------------------------------------------------------------
(* ScanLogic: the cursor *)

\* An argument left out of a set_position call.
None == -1

CursorArgs == (0 .. MaxCursor) \cup {None}

\* ScanLogic._change_position: the cursor is sent to the device.
change_position(x, y) == device_xy' = <<x, y>>

\* ScanLogic.set_position called from outside, at any time.
set_position ==
    /\ set_positions < MaxSetPositions
    /\ set_positions' = set_positions + 1
    /\ \E x, y \in CursorArgs :
        LET nx == IF x # None THEN x ELSE current_x
            ny == IF y # None THEN y ELSE current_y
        IN  /\ current_x' = nx
            /\ current_y' = ny
            /\ IF module_state = "locked" \/ scanner_state = "locked"
               THEN /\ last_op' = "set_position_rejected"
                    /\ UNCHANGED <<device_xy, accepted_xy>>
               ELSE /\ last_op' = "set_position_done"
                    /\ change_position(nx, ny)
                    /\ accepted_xy' = <<nx, ny>>
    /\ UNCHANGED <<module_state, stopRequested, scan_counter, xy_line_pos,
                   xyscan_continuable, image_lines, scan_queue, in_line,
                   setting_up, scanner_open, clock_open, scans, stop_called,
                   begun_after_stop, lines_since_stop_call, rows_stored,
                   setup_failed_at>>
    /\ UNCHANGED <<confocalVars, nicardVars, interfuseVars, sideVars>>
    /\ UNCHANGED history_len
    /\ UNCHANGED history_index

NextCursor == NextScanLogic \/ set_position

SpecCursor == Init /\ [][NextCursor]_vars

\* C26 (as claimed): a set_position call that is rejected because the logic
\* or the device is locked leaves the cursor as it was and asks nothing of
\* the device, and the device is never sent anywhere but to a cursor that a
\* call which was not rejected has set, also when a scan stops and
\* re-applies the cursor.
C26_RejectedSetPositionNoEffect ==
    /\ [][(set_positions' # set_positions
                /\ last_op' = "set_position_rejected") =>
             /\ current_x' = current_x
             /\ current_y' = current_y
             /\ device_xy' = device_xy]_vars
    /\ [](device_xy = accepted_xy)

-----------------------------------------------------------------------------
(* ConfocalHistoryEntry: serialize and deserialize *)

EntryValues == 0 .. MaxEntryValue

EntryRanges == {r \in EntryValues \X EntryValues : r[1] < r[2]}

\* Images of one line and two pixels.
EntryImages == {<<a, 0>> : a \in {0, MaxEntryValue}}

\* ConfocalHistoryEntry.snapshot: the entry takes the values of the logic.
snapshot(e, cx, cy, xr, yr, res, lp, cont, img) ==
    [e EXCEPT !.current_x = cx, !.current_y = cy,
              !.image_x_range = xr, !.image_y_range = yr,
              !.xy_resolution = res, !.xy_line_position = lp,
              !.xy_scan_continuable = cont,
              !.has_xy_image = TRUE, !.xy_image = img]

\* ConfocalHistoryEntry.serialize: the dictionary.
serialize(e) ==
    [focus_position |-> <<e.current_x, e.current_y>>,
     x_range |-> e.image_x_range,
     y_range |-> e.image_y_range,
     xy_resolution |-> e.xy_resolution,
     xy_line_position |-> e.xy_line_position,
     xy_scan_cont |-> e.xy_scan_continuable,
     xy_image |-> e.xy_image]

\* isinstance(v, np.ndarray)
IsNdarray(v) == v \in EntryImages

\* ConfocalHistoryEntry.deserialize: the keys it reads, each under the
\* condition the code puts on it.  xy_line_position and xy_scan_cont are
\* not read.
deserialize(e, serialized) ==
    LET has(k) == k \in DOMAIN serialized
        a == IF has("focus_position") /\ Len(serialized.focus_position) = 4
             THEN [e EXCEPT !.current_x = serialized.focus_position[1],
                            !.current_y = serialized.focus_position[2]]
             ELSE e
        b == IF has("x_range") /\ Len(serialized.x_range) = 2
             THEN [a EXCEPT !.image_x_range = serialized.x_range] ELSE a
        c == IF has("y_range") /\ Len(serialized.y_range) = 2
             THEN [b EXCEPT !.image_y_range = serialized.y_range] ELSE b
        d == IF has("xy_resolution")
             THEN [c EXCEPT !.xy_resolution = serialized.xy_resolution]
             ELSE c
    IN  IF has("xy_image") /\ IsNdarray(serialized.xy_image)
        THEN [d EXCEPT !.has_xy_image = TRUE,
                       !.xy_image = serialized.xy_image]
        ELSE d

\* An entry takes a snapshot of some state of the logic.
Snapshot_Entry ==
    /\ ~he_entry.has_xy_image
    /\ \E cx, cy, res, lp \in EntryValues, xr, yr \in EntryRanges,
          cont \in BOOLEAN, img \in EntryImages :
          he_entry' = snapshot(he_entry, cx, cy, xr, yr, res, lp, cont, img)
    /\ UNCHANGED <<he_restored, he_done>>
    /\ UNCHANGED besideEntry

\* A fresh entry is restored from the dictionary of the entry.
RoundTrip ==
    /\ he_entry.has_xy_image
    /\ ~he_done
    /\ he_restored' = deserialize(FreshEntry, serialize(he_entry))
    /\ he_done' = TRUE
    /\ UNCHANGED he_entry
    /\ UNCHANGED besideEntry

NextEntry == Snapshot_Entry \/ RoundTrip

SpecEntry == Init /\ [][NextEntry]_vars

\* C27 (as claimed): deserialize(e.serialize()) on a fresh entry gives an
\* entry with the current_x, current_y, image_x_range, image_y_range,
\* xy_resolution, xy_line_position, xy_scan_continuable and xy_image of e.
C27_SerializeRoundTrip ==
    he_done =>
        /\ he_restored.current_x = he_entry.current_x
        /\ he_restored.current_y = he_entry.current_y
        /\ he_restored.image_x_range = he_entry.image_x_range
        /\ he_restored.image_y_range = he_entry.image_y_range
        /\ he_restored.xy_resolution = he_entry.xy_resolution
        /\ he_restored.xy_line_position = he_entry.xy_line_position
        /\ he_restored.xy_scan_continuable = he_entry.xy_scan_continuable
        /\ he_restored.xy_image = he_entry.xy_image

-----------------------------------------------------------------------------
(* ScanLogic: the history *)

\* ScanLogic.history_forward
history_forward ==
    /\ IF history_index < history_len - 1
       THEN history_index' = history_index + 1
       ELSE UNCHANGED history_index
    /\ last_op' = "history_forward"
    /\ UNCHANGED <<module_state, stopRequested, scan_counter, xy_line_pos,
                   xyscan_continuable, image_lines, scan_queue, in_line,
                   setting_up, scanner_open, clock_open, scans, stop_called,
                   begun_after_stop, lines_since_stop_call, rows_stored,
                   setup_failed_at, current_x, current_y, device_xy,
                   accepted_xy, set_positions, history_len>>
    /\ UNCHANGED <<confocalVars, nicardVars, interfuseVars, sideVars>>

\* ScanLogic.history_back
history_back ==
    /\ IF history_index > 0
       THEN history_index' = history_index - 1
       ELSE UNCHANGED history_index
    /\ last_op' = "history_back"
    /\ UNCHANGED <<module_state, stopRequested, scan_counter, xy_line_pos,
                   xyscan_continuable, image_lines, scan_queue, in_line,
                   setting_up, scanner_open, clock_open, scans, stop_called,
                   begun_after_stop, lines_since_stop_call, rows_stored,
                   setup_failed_at, current_x, current_y, device_xy,
                   accepted_xy, set_positions, history_len>>
    /\ UNCHANGED <<confocalVars, nicardVars, interfuseVars, sideVars>>

NextHistory == NextScanLogic \/ history_forward \/ history_back

SpecHistory == Init /\ [][NextHistory]_vars

\* C28: after activation, whatever scans are stopped and whatever
\* history_back and history_forward calls are made, the history holds
\* between 1 and max_history_length entries, history_index is the index of
\* one of them, and every stopped scan leaves history_index at the newest
\* entry.
C28_HistoryBounds ==
    /\ [](/\ 1 <= history_len /\ history_len <= max_history_length
          /\ 0 <= history_index /\ history_index <= history_len - 1)
    /\ [][(stopRequested /\ ~stopRequested') =>
             history_index' = history_len' - 1]_vars

C28_Witness ==
    /\ history_len = max_history_length /\ history_index = 0
    /\ scans = 2 /\ last_op = "history_back" /\ module_state = "idle"
    /\ ~stopRequested /\ scan_queue = <<>>

-----------------------------------------------------------------------------
(* NIcard: the clock tasks *)

Channels == 0 .. MaxChannel

\* clock_channel=None or a channel of the card.
ChannelArgs == Channels \cup {None}

\* How far the driver calls of set_up_clock get: DAQmxCreateTask raises,
\* a call after it raises (the task then exists), or none raises.
SetUpClockOutcomes == {"create_raises", "later_raises", "ok"}

\* How far the driver calls of close_clock get.
CloseClockOutcomes == {"stop_raises", "clear_raises", "ok"}

task_name(scanner) == IF scanner THEN "ScannerClock" ELSE "CounterClock"

\* NIcard.set_up_clock.  The driver refuses a second task of a name.
set_up_clock(scanner, channel, outcome) ==
    LET new_clock_channel ==
            IF channel # None /\ ~scanner THEN channel ELSE clock_channel
        new_scanner_clock_channel ==
            IF channel # None /\ scanner THEN channel
            ELSE scanner_clock_channel
    IN  IF ~scanner /\ clock_daq_task THEN
            /\ clock_ret' = -1
            /\ UNCHANGED <<clock_daq_task, scanner_clock_daq_task,
                           clock_channel, scanner_clock_channel, daq_tasks>>
        ELSE IF scanner /\ scanner_clock_daq_task THEN
            /\ clock_ret' = -1
            /\ UNCHANGED <<clock_daq_task, scanner_clock_daq_task,
                           clock_channel, scanner_clock_channel, daq_tasks>>
        ELSE
            /\ clock_channel' = new_clock_channel
            /\ scanner_clock_channel' = new_scanner_clock_channel
            /\ IF /\ new_scanner_clock_channel = new_clock_channel
                  /\ ~(~clock_daq_task /\ ~scanner_clock_daq_task)
               THEN /\ clock_ret' = -1
                    /\ UNCHANGED <<clock_daq_task, scanner_clock_daq_task,
                                   daq_tasks>>
               ELSE IF outcome = "create_raises"
                       \/ daq_tasks[task_name(scanner)] > 0
               THEN /\ clock_ret' = -1
                    /\ UNCHANGED <<clock_daq_task, scanner_clock_daq_task,
                                   daq_tasks>>
               ELSE /\ daq_tasks' =
                           [daq_tasks EXCEPT ![task_name(scanner)] = @ + 1]
                    /\ IF outcome = "later_raises"
                       THEN /\ clock_ret' = -1
                            /\ UNCHANGED <<clock_daq_task,
                                           scanner_clock_daq_task>>
                       ELSE /\ clock_ret' = 0
                            /\ clock_daq_task' = (clock_daq_task \/ ~scanner)
                            /\ scanner_clock_daq_task' =
                                   (scanner_clock_daq_task \/ scanner)

\* NIcard.close_clock.  DAQmxStopTask raises on the None of a clock that
\* was never set up.
close_clock(scanner, outcome) ==
    LET my_task == IF scanner THEN scanner_clock_daq_task ELSE clock_daq_task
    IN  IF ~my_task \/ outcome = "stop_raises" THEN
            /\ clock_ret' = -1
            /\ UNCHANGED <<clock_daq_task, scanner_clock_daq_task, daq_tasks>>
        ELSE IF outcome = "clear_raises" THEN
            /\ clock_ret' = -1
            /\ UNCHANGED <<clock_daq_task, scanner_clock_daq_task, daq_tasks>>
        ELSE
            /\ clock_ret' = 0
            /\ daq_tasks' = [daq_tasks EXCEPT ![task_name(scanner)] = @ - 1]
            /\ clock_daq_task' = (clock_daq_task /\ scanner)
            /\ scanner_clock_daq_task' = (scanner_clock_daq_task /\ ~scanner)

SetUpClock ==
    /\ clock_calls < MaxClockCalls
    /\ clock_calls' = clock_calls + 1
    /\ \E scanner \in BOOLEAN, channel \in ChannelArgs,
          outcome \in SetUpClockOutcomes :
          set_up_clock(scanner, channel, outcome)
    /\ UNCHANGED besideClock

CloseClock ==
    /\ clock_calls < MaxClockCalls
    /\ clock_calls' = clock_calls + 1
    /\ \E scanner \in BOOLEAN, outcome \in CloseClockOutcomes :
          close_clock(scanner, outcome)
    /\ UNCHANGED <<clock_channel, scanner_clock_channel>>
    /\ UNCHANGED besideClock

NextClock == SetUpClock \/ CloseClock

SpecClock == Init /\ [][NextClock]_vars

\* C29 (as claimed): whatever set_up_clock and close_clock calls are made,
\* at most one counter clock task and at most one scanner clock task exist,
\* when the two clock channels are the same at most one clock task exists
\* in all, and a set_up_clock call that returns -1 has created no task.
C29_ClockTasks ==
    /\ [](/\ daq_tasks["CounterClock"] <= 1
          /\ daq_tasks["ScannerClock"] <= 1
          /\ scanner_clock_channel = clock_channel =>
                daq_tasks["CounterClock"] + daq_tasks["ScannerClock"] <= 1)
    /\ [][(clock_calls' # clock_calls /\ clock_ret' = -1) =>
             daq_tasks' = daq_tasks]_vars

-----------------------------------------------------------------------------
(* NIcard: from a line path to step pulses *)

\* len(self._scanner_do_channels): the port and the lines of x, y and z.
scanner_do_channels_len == 4

\* np.diff
Diff(v) == [i \in 1 .. Len(v) - 1 |-> v[i + 1] - v[i]]

\* np.where(np.diff(values) == d)[0]: indices counted from 0.
WhereDiff(values, d) == {i - 1 : i \in {j \in DOMAIN Diff(values) : Diff(values)[j] = d}}

\* [position] + row: a list is prepended to a list and added element by
\* element to a numpy array.
PlusRow(position, row, as_array) ==
    IF as_array THEN [i \in DOMAIN row |-> position + row[i]]
    ELSE <<position>> \o row

\* NIcard._scanner_position_to_step, for a path of at least two points.
\* Rows and columns of the step data are counted from 0.
scanner_position_to_step(line_path, position, as_array) ==
    LET rows == 0 .. 2 * Len(line_path[1]) - 1
        cols == 0 .. scanner_do_channels_len - 1
        step_size == line_path[1][2] - line_path[1][1]
        x_values == PlusRow(position[1], line_path[1], as_array)
        y_values == PlusRow(position[2], line_path[2], as_array)
        index_x_forward == WhereDiff(x_values, step_size)
        index_x_backward == WhereDiff(x_values, -step_size)
        index_y_forward == WhereDiff(y_values, step_size)
        index_y_backward == WhereDiff(y_values, -step_size)
        hit(r, c) ==
            \/ c = 0 /\ \E i \in index_x_forward : r = 2 * i
            \/ c = 1 /\ \E i \in index_x_backward : r = 2 * i
            \/ c = 2 /\ scanner_do_channels_len > 2
                     /\ \E i \in index_y_forward : r = 2 * i
            \/ c = 3 /\ scanner_do_channels_len > 2
                     /\ \E i \in index_y_backward : r = 2 * i
    IN  [r \in rows |-> [c \in cols |-> IF hit(r, c) THEN 1 ELSE 0]]

PathLens == 2 .. MaxPathLen

\* A caller hands over a line path.
GivePath ==
    /\ sp_line_path = <<<<>>, <<>>>>
    /\ \E n \in PathLens :
        \E xs \in [1 .. n -> 0 .. MaxPathValue], ys \in [1 .. n -> 0 .. 1] :
            sp_line_path' = <<xs, ys>>
    /\ sp_as_array' \in BOOLEAN
    /\ sp_position' \in (0 .. 1) \X {0}
    /\ UNCHANGED <<sp_step_data, sp_done>>
    /\ UNCHANGED besideStep

\* The call of _scanner_position_to_step returns.
ScannerPositionToStep ==
    /\ sp_line_path # <<<<>>, <<>>>>
    /\ ~sp_done
    /\ sp_step_data' =
           scanner_position_to_step(sp_line_path, sp_position, sp_as_array)
    /\ sp_done' = TRUE
    /\ UNCHANGED <<sp_line_path, sp_as_array, sp_position>>
    /\ UNCHANGED besideStep

NextStep == GivePath \/ ScannerPositionToStep

SpecStep == Init /\ [][NextStep]_vars

\* C30 (as claimed): the step data returned for a line path has two rows
\* for every point of the path, every row of odd index is all zeros, and no
\* row has the forward and the backward line of one axis both at 1, also
\* when the first two x values of the path are the same.
C30_StepData ==
    sp_done =>
        /\ DOMAIN sp_step_data = 0 .. 2 * Len(sp_line_path[1]) - 1
        /\ \A r \in DOMAIN sp_step_data :
              /\ r % 2 = 1 => \A c \in DOMAIN sp_step_data[r] :
                                  sp_step_data[r][c] = 0
              /\ ~(sp_step_data[r][0] = 1 /\ sp_step_data[r][1] = 1)
              /\ ~(sp_step_data[r][2] = 1 /\ sp_step_data[r][3] = 1)

====
